---- MODULE Spec2Model ----
(***************************************************************************)
(* Model of the survey-management backend (src/backend/index.js): the     *)
(* Express middleware chain of every route, token issue and verification, *)
(* the role check, input validation, the store calls and the responses.   *)
(* One request is followed through its chain, one middleware per step.    *)
(***************************************************************************)
EXTENDS Integers, Sequences, FiniteSets, TLC

\* ------------------------------------------------------------------ bounds
MaxClock == 2      \* the clock runs 0..MaxClock (one unit = one hour)
MaxTokens == 1     \* tokens kept as issued
MaxRows == 1       \* rows the requests add to the entity tables in total

\* ------------------------------------------------------- program constants
DefaultExpiresIn == 1    \* '1h'
ConfiguredExpiresIn == 2 \* a JWT_EXPIRES_IN of two hours, when configured

\* ------------------------------------------------------------ environment
\* process.env: an unset variable is the empty string (falsy, as undefined).
Unset == ""
Envs ==
  [JWT_SECRET : {Unset, "s3cret"},
   JWT_EXPIRES_IN : {0, ConfiguredExpiresIn},
   NODE_ENV : {"development", "production"}]

\* ------------------------------------------------------------ users table
Roles == {"admin", "creator", "respondent"}

\* bcrypt hash of a plaintext, as the string the password column stores
bcryptHash(p) ==
  CASE p = "admin123" -> "$2b$12$admin123"
    [] p = "creator123" -> "$2b$12$creator123"
    [] p = "resp123" -> "$2b$12$resp123"
    [] OTHER -> "$2b$12$other"

\* bcrypt.compare(data, hash)
bcryptCompare(p, hash) == bcryptHash(p) = hash

\* rows of the users table (username unique)
UsersTable ==
  {[id |-> 1, username |-> "admin", password |-> bcryptHash("admin123"), role |-> "admin"],
   [id |-> 2, username |-> "creator", password |-> bcryptHash("creator123"), role |-> "creator"],
   [id |-> 3, username |-> "respondent", password |-> bcryptHash("resp123"), role |-> "respondent"]}

\* SELECT * FROM users WHERE username = $1
SelectUsers(username) == {u \in UsersTable : u.username = username}

\* ------------------------------------------------------------------ tokens
NoPayload == [id |-> 0, username |-> "", role |-> "", iat |-> 0, exp |-> 0]
NoJwt == [payload |-> NoPayload, sig |-> ""]
NoUser == NoPayload

\* jwt.sign(payload, secret, {expiresIn}): throws without a secret
jwtSign(identity, secret, expiresIn, now) ==
  IF secret = Unset
  THEN [threw |-> TRUE, token |-> NoJwt]
  ELSE [threw |-> FALSE,
        token |-> [payload |-> [id |-> identity.id, username |-> identity.username,
                                role |-> identity.role, iat |-> now, exp |-> now + expiresIn],
                   sig |-> secret]]

\* One character run of a header value: a space, a word, or a token.
Atom(c) == [ch |-> c, jwt |-> NoJwt]
JwtAtom(t) == [ch |-> "jwt", jwt |-> t]
Undefined == <<Atom("undefined")>>

\* String.prototype.split(' ')
RECURSIVE Split(_)
Split(s) ==
  IF s = <<>> THEN << <<>> >>
  ELSE LET rest == Split(Tail(s))
       IN IF Head(s).ch = " "
          THEN << <<>> >> \o rest
          ELSE << <<Head(s)>> \o Head(rest) >> \o Tail(rest)

\* authHeader && authHeader.split(' ')[1]  (<<>> is every falsy outcome)
BearerToken(authHeader) ==
  IF authHeader = Undefined \/ authHeader = <<>> THEN <<>>
  ELSE LET parts == Split(authHeader)
       IN IF Len(parts) >= 2 THEN parts[2] ELSE <<>>

\* jwt.verify as it would be with the expiry left unchecked
jwtVerify_IgnoreExpiration(token, secret, now) ==
  IF Len(token) # 1 \/ token[1].ch # "jwt"
  THEN [err |-> "jwt malformed", payload |-> NoPayload]
  ELSE IF secret = Unset
  THEN [err |-> "secret or public key must be provided", payload |-> NoPayload]
  ELSE IF token[1].jwt.sig # secret
  THEN [err |-> "invalid signature", payload |-> NoPayload]
  ELSE [err |-> "", payload |-> token[1].jwt.payload]

\* jwt.verify(token, secret, callback): err is "" when the token verifies
jwtVerify(token, secret, now) ==
  IF Len(token) # 1 \/ token[1].ch # "jwt"
  THEN [err |-> "jwt malformed", payload |-> NoPayload]
  ELSE IF secret = Unset
  THEN [err |-> "secret or public key must be provided", payload |-> NoPayload]
  ELSE IF token[1].jwt.sig # secret
  THEN [err |-> "invalid signature", payload |-> NoPayload]
  ELSE IF now >= token[1].jwt.payload.exp
  THEN [err |-> "jwt expired", payload |-> NoPayload]
  ELSE [err |-> "", payload |-> token[1].jwt.payload]

\* --------------------------------------------------------------- responses
NoRes == [status |-> 0, body |-> [message |-> ""]]
Json(status, body) == [status |-> status, body |-> body]
Sent(r) == r.status # 0


\* ---------------------------------------------------------------- validators
Digits == {"0", "1", "2", "3", "4", "5", "6", "7", "8", "9"}

\* isInt(): an optional sign, then 0 or digits with no leading zero
IsInt(s) ==
  LET d == IF s # <<>> /\ Head(s) \in {"-", "+"} THEN Tail(s) ELSE s
  IN /\ d # <<>>
     /\ \A i \in 1..Len(d) : d[i] \in Digits
     /\ (Len(d) > 1 => d[1] # "0")

\* isEmail(): one '@', a local part, a domain with a dot between labels
IsEmail(s) ==
  \E i \in 1..Len(s) :
    /\ s[i] = "@"
    /\ \A j \in 1..Len(s) : s[j] = "@" => j = i
    /\ i > 1
    /\ \E k \in (i + 2)..(Len(s) - 1) : s[k] = "."
    /\ s[i + 1] # "." /\ s[Len(s)] # "."

DigitValue(c) ==
  CASE c = "0" -> 0 [] c = "1" -> 1 [] c = "2" -> 2 [] c = "3" -> 3 [] c = "4" -> 4
    [] c = "5" -> 5 [] c = "6" -> 6 [] c = "7" -> 7 [] c = "8" -> 8 [] OTHER -> 9

\* the integer the store reads from an unsigned decimal parameter
RECURSIVE ParseInt(_)
ParseInt(s) ==
  IF s = <<>> THEN 0
  ELSE 10 * ParseInt(SubSeq(s, 1, Len(s) - 1)) + DigitValue(s[Len(s)])

\* the body(...) validation chains of each route: the messages they record
bodyValidators(method, path, b) ==
  CASE method = "POST" /\ path = "/api/login" ->
         (IF b.username = "" THEN {"Username is required"} ELSE {})
         \cup (IF b.password = "" THEN {"Password is required"} ELSE {})
    [] method = "POST" /\ path = "/api/companies" ->
         (IF b.name = "" THEN {"Company name is required"} ELSE {})
    [] method = "POST" /\ path = "/api/employees" ->
         (IF b.name = "" THEN {"Employee name is required"} ELSE {})
         \cup (IF ~IsEmail(b.email) THEN {"Valid email is required"} ELSE {})
         \cup (IF ~IsInt(b.company_id) THEN {"Valid company ID is required"} ELSE {})
    [] method = "POST" /\ path = "/api/categories" ->
         (IF b.name = "" THEN {"Category name is required"} ELSE {})
    [] method = "POST" /\ path = "/api/questions" ->
         (IF b.question_text = "" THEN {"Question text is required"} ELSE {})
         \cup (IF b.question_type \notin {"text", "mcq"}
               THEN {"Question type must be text or mcq"} ELSE {})
         \cup (IF ~IsInt(b.category_id) THEN {"Valid category ID is required"} ELSE {})
    [] OTHER -> {}

\* --------------------------------------------------------------- middleware
\* Each middleware yields the response it sends (NoRes when none), whether it
\* calls next(), and the req.user it leaves.
\* handleValidationErrors as it would be without the return before next()
handleValidationErrors_NoReturn(errs, user) ==
  IF errs # {}
  THEN [res |-> Json(400, [message |-> "Validation failed", errors |-> errs]),
        next |-> TRUE, user |-> user]
  ELSE [res |-> NoRes, next |-> TRUE, user |-> user]

handleValidationErrors(errs, user) ==
  IF errs # {}
  THEN [res |-> Json(400, [message |-> "Validation failed", errors |-> errs]),
        next |-> FALSE, user |-> user]
  ELSE [res |-> NoRes, next |-> TRUE, user |-> user]

\* authenticateToken as it would be if it tested the header, not the token
authenticateToken_HeaderOnly(authHeader, e, now) ==
  IF authHeader = Undefined \/ authHeader = <<>>
  THEN [res |-> Json(401, [message |-> "Access token required"]),
        next |-> FALSE, user |-> NoUser]
  ELSE LET v == jwtVerify(BearerToken(authHeader), e.JWT_SECRET, now)
       IN IF v.err # ""
          THEN [res |-> Json(403, [message |-> "Invalid or expired token"]),
                next |-> FALSE, user |-> NoUser]
          ELSE [res |-> NoRes, next |-> TRUE, user |-> v.payload]

authenticateToken(authHeader, e, now) ==
  LET token == BearerToken(authHeader)
  IN IF token = <<>>
     THEN [res |-> Json(401, [message |-> "Access token required"]),
           next |-> FALSE, user |-> NoUser]
     ELSE LET v == jwtVerify(token, e.JWT_SECRET, now)
          IN IF v.err # ""
             THEN [res |-> Json(403, [message |-> "Invalid or expired token"]),
                   next |-> FALSE, user |-> NoUser]
             ELSE [res |-> NoRes, next |-> TRUE, user |-> v.payload]

requireRole(roles, user) ==
  IF user = NoUser
  THEN [res |-> Json(401, [message |-> "Authentication required"]),
        next |-> FALSE, user |-> user]
  ELSE IF user.role \notin roles
  THEN [res |-> Json(403, [message |-> "Insufficient permissions"]),
        next |-> FALSE, user |-> user]
  ELSE [res |-> NoRes, next |-> TRUE, user |-> user]

\* ------------------------------------------------------------------- routes
AdminPaths == {"/api/companies", "/api/employees"}
CreatorPaths == {"/api/categories", "/api/questions"}
GatedPaths == AdminPaths \cup CreatorPaths
MissingPaths == {"/api/surveys", "/api/surveys/1", "/api/surveys/1/response", "/api/users"}

\* the roles arrays as they would be if the creator routes also let admin in
AllowedRoles_AdminEverywhere(path) ==
  IF path \in AdminPaths THEN {"admin"}
  ELSE IF path \in CreatorPaths THEN {"admin", "creator"}
  ELSE {}

\* the roles array each gated route hands to requireRole
AllowedRoles(path) ==
  IF path \in AdminPaths THEN {"admin"}
  ELSE IF path \in CreatorPaths THEN {"creator"}
  ELSE {}

\* the handler that ends the chain of a gated route
EntityHandler(method, path) ==
  CASE method = "GET" /\ path = "/api/companies" -> "getCompanies"
    [] method = "POST" /\ path = "/api/companies" -> "postCompanies"
    [] method = "GET" /\ path = "/api/employees" -> "getEmployees"
    [] method = "POST" /\ path = "/api/employees" -> "postEmployees"
    [] method = "GET" /\ path = "/api/categories" -> "getCategories"
    [] method = "POST" /\ path = "/api/categories" -> "postCategories"
    [] method = "GET" /\ path = "/api/questions" -> "getQuestions"
    [] OTHER -> "postQuestions"

\* the chains as they would be with the validators registered before the gate
RouteChain_ValidateFirst(method, path) ==
  CASE method = "GET" /\ path = "/" -> <<"root">>
    [] method = "GET" /\ path = "/health" -> <<"health">>
    [] method = "GET" /\ path = "/api/health-check" -> <<"healthCheck">>
    [] method = "POST" /\ path = "/api/login" ->
         <<"body", "handleValidationErrors", "login">>
    [] method = "GET" /\ path \in GatedPaths ->
         <<"authenticateToken", "requireRole", EntityHandler(method, path)>>
    [] method = "POST" /\ path \in GatedPaths ->
         <<"body", "handleValidationErrors", "authenticateToken", "requireRole",
           EntityHandler(method, path)>>
    [] method = "GET" /\ path = "/api/test-db" -> <<"testDb">>
    [] OTHER -> <<"notFound">>

\* the middleware each registered route runs, in registration order
RouteChain(method, path) ==
  CASE method = "GET" /\ path = "/" -> <<"root">>
    [] method = "GET" /\ path = "/health" -> <<"health">>
    [] method = "GET" /\ path = "/api/health-check" -> <<"healthCheck">>
    [] method = "POST" /\ path = "/api/login" ->
         <<"body", "handleValidationErrors", "login">>
    [] method = "GET" /\ path \in GatedPaths ->
         <<"authenticateToken", "requireRole", EntityHandler(method, path)>>
    [] method = "POST" /\ path \in GatedPaths ->
         <<"authenticateToken", "requireRole", "body", "handleValidationErrors",
           EntityHandler(method, path)>>
    [] method = "GET" /\ path = "/api/test-db" -> <<"testDb">>
    [] OTHER -> <<"notFound">>

\* express.json() runs first: a body that does not parse goes to the error
\* middleware, every other request to its route (or the 404 handler)
Chain(r) ==
  IF r.malformed THEN <<"errorMiddleware">> ELSE RouteChain(r.method, r.path)


\* ----------------------------------------------------------------- handlers
StoreErrorDetail == "connect ECONNREFUSED"
ParseErrorDetail == "Unexpected token in JSON"

\* process.env.JWT_EXPIRES_IN || '1h'
ExpiresIn(e) == IF e.JWT_EXPIRES_IN # 0 THEN e.JWT_EXPIRES_IN ELSE DefaultExpiresIn

\* login as it would be if an unknown username had its own answer
login_DistinctUnknownUser(b, e, now, storeOk) ==
  IF ~storeOk
  THEN [res |-> Json(500, [message |-> "Internal server error"]), token |-> NoJwt]
  ELSE LET rows == SelectUsers(b.username)
       IN IF rows = {}
          THEN [res |-> Json(404, [message |-> "User not found"]), token |-> NoJwt]
          ELSE LET user == CHOOSE u \in rows : TRUE
               IN IF ~bcryptCompare(b.password, user.password)
                  THEN [res |-> Json(401, [message |-> "Invalid credentials"]),
                        token |-> NoJwt]
                  ELSE LET s == jwtSign(user, e.JWT_SECRET, ExpiresIn(e), now)
                       IN IF s.threw
                          THEN [res |-> Json(500, [message |-> "Internal server error"]),
                                token |-> NoJwt]
                          ELSE [res |-> Json(200, [message |-> "Login successful",
                                                   token |-> s.token,
                                                   user |-> [id |-> user.id,
                                                             username |-> user.username,
                                                             role |-> user.role]]),
                                token |-> s.token]

\* login as it would be if it sent the row it read as the user object
login_LeakRow(b, e, now, storeOk) ==
  IF ~storeOk
  THEN [res |-> Json(500, [message |-> "Internal server error"]), token |-> NoJwt]
  ELSE LET rows == SelectUsers(b.username)
       IN IF rows = {}
          THEN [res |-> Json(401, [message |-> "Invalid credentials"]), token |-> NoJwt]
          ELSE LET user == CHOOSE u \in rows : TRUE
               IN IF ~bcryptCompare(b.password, user.password)
                  THEN [res |-> Json(401, [message |-> "Invalid credentials"]),
                        token |-> NoJwt]
                  ELSE LET s == jwtSign(user, e.JWT_SECRET, ExpiresIn(e), now)
                       IN IF s.threw
                          THEN [res |-> Json(500, [message |-> "Internal server error"]),
                                token |-> NoJwt]
                          ELSE [res |-> Json(200, [message |-> "Login successful",
                                                   token |-> s.token,
                                                   user |-> user]),
                                token |-> s.token]

\* POST /api/login: the response, and the token jwt.sign made (NoJwt if none).
\* storeOk is whether pool.query resolved.
login(b, e, now, storeOk) ==
  IF ~storeOk
  THEN [res |-> Json(500, [message |-> "Internal server error"]), token |-> NoJwt]
  ELSE LET rows == SelectUsers(b.username)
       IN IF rows = {}
          THEN [res |-> Json(401, [message |-> "Invalid credentials"]), token |-> NoJwt]
          ELSE LET user == CHOOSE u \in rows : TRUE
               IN IF ~bcryptCompare(b.password, user.password)
                  THEN [res |-> Json(401, [message |-> "Invalid credentials"]),
                        token |-> NoJwt]
                  ELSE LET s == jwtSign(user, e.JWT_SECRET, ExpiresIn(e), now)
                       IN IF s.threw
                          THEN [res |-> Json(500, [message |-> "Internal server error"]),
                                token |-> NoJwt]
                          ELSE [res |-> Json(200, [message |-> "Login successful",
                                                   token |-> s.token,
                                                   user |-> [id |-> user.id,
                                                             username |-> user.username,
                                                             role |-> user.role]]),
                                token |-> s.token]

\* a GET handler: SELECT the rows of a table, or the route's 500
selectAll(count, storeOk, failMessage) ==
  IF storeOk THEN Json(200, [rows |-> count])
  ELSE Json(500, [message |-> failMessage])

\* a POST handler: INSERT ... RETURNING *, or the route's 500
insertRow(count, storeOk, failMessage) ==
  IF storeOk THEN Json(201, [id |-> count + 1])
  ELSE Json(500, [message |-> failMessage])

\* GET /api/test-db
testDb(now, storeOk) ==
  IF storeOk
  THEN Json(200, [message |-> "Database connection successful", timestamp |-> now])
  ELSE Json(500, [message |-> "Database connection failed", error |-> StoreErrorDetail])

\* the error-handling middleware
errorMiddleware(e, errMessage) ==
  Json(500, [message |-> "Internal server error",
             error |-> IF e.NODE_ENV = "development" THEN errMessage
                       ELSE "Something went wrong"])

\* the 404 handler
notFound ==
  Json(404, [message |-> "Route not found",
             availableRoutes |-> {"GET /", "GET /health", "POST /api/login",
                                  "GET /api/companies", "GET /api/employees",
                                  "GET /api/categories", "GET /api/questions",
                                  "GET /api/test-db"}])

\* --------------------------------------------------------------------- state
VARIABLES
  env,      \* process.env, read at every use, never written
  clock,    \* the time jwt.sign and jwt.verify read
  issued,   \* the tokens login has issued
  db,       \* row count of each entity table
  req,      \* the request being served: method, path, headers, body
  pc,       \* position in the request's middleware chain; 0 when it has ended
  reqUser,  \* req.user
  errors,   \* the validation errors recorded on the request
  res,      \* the response sent for the request (NoRes before it is sent)
  queries,  \* the pool.query calls made for the request, by outcome
  trace     \* the middleware and handlers that ran for the request, in order

vars == <<env, clock, issued, db, req, pc, reqUser, errors, res, queries, trace>>

Tables == {"companies", "employees", "categories", "questions"}
TotalRows(d) == d.companies + d.employees + d.categories + d.questions

\* the entity tables as provisioned: one company and one category
SeededDb == [t \in Tables |-> IF t \in {"companies", "categories"} THEN 1 ELSE 0]

NoBody == [none |-> ""]
NoReq == [method |-> "", path |-> "", authorization |-> Undefined,
          body |-> NoBody, malformed |-> FALSE]

Init ==
  /\ env \in Envs
  /\ clock = 0
  /\ issued = {}
  /\ db = SeededDb
  /\ req = NoReq
  /\ pc = 0
  /\ reqUser = NoUser
  /\ errors = {}
  /\ res = NoRes
  /\ queries = <<>>
  /\ trace = <<>>

\* ------------------------------------------------------------------- inputs
\* a token signed with a key that is not the server's
Forged ==
  {[payload |-> [id |-> 1, username |-> "admin", role |-> "admin",
                 iat |-> 0, exp |-> MaxClock + 1],
    sig |-> "forged"]}

AuthorizationHeaders ==
  {Undefined, <<Atom("Bearer")>>, <<Atom("Bearer"), Atom(" ")>>}
  \cup {<<Atom("Bearer"), Atom(" "), JwtAtom(t)>> : t \in issued \cup Forged}

LoginBodies ==
  [username : {"", "admin", "creator", "respondent", "ghost"},
   password : {"", "admin123", "creator123", "resp123"}]

GoodEmail == <<"b", "@", "x", ".", "y">>
BadEmail == <<"b", "@", "x">>

PostBodies(path) ==
  CASE path = "/api/companies" -> [name : {"", "Acme"}, industry : {""}]
    [] path = "/api/employees" ->
         {[name |-> "Bob", email |-> GoodEmail, position |-> "", company_id |-> <<"1">>],
          [name |-> "Bob", email |-> GoodEmail, position |-> "", company_id |-> <<"7">>],
          [name |-> "Bob", email |-> BadEmail, position |-> "", company_id |-> <<"1">>],
          [name |-> "", email |-> GoodEmail, position |-> "", company_id |-> <<"0", "1">>]}
    [] path = "/api/categories" -> [name : {"", "HR"}, description : {""}]
    [] OTHER ->
         {[question_text |-> "Why?", question_type |-> "mcq", category_id |-> <<"1">>],
          [question_text |-> "Why?", question_type |-> "text", category_id |-> <<"7">>],
          [question_text |-> "Why?", question_type |-> "bool", category_id |-> <<"1">>],
          [question_text |-> "", question_type |-> "mcq", category_id |-> <<"x">>]}

\* ------------------------------------------------------------------ actions
\* a request arrives: app dispatches it to the first middleware of its chain
Start(m, p, h, b, mal) ==
  /\ pc = 0
  /\ req = NoReq
  /\ req' = [method |-> m, path |-> p, authorization |-> h, body |-> b, malformed |-> mal]
  /\ pc' = 1
  /\ reqUser' = NoUser
  /\ errors' = {}
  /\ res' = NoRes
  /\ queries' = <<>>
  /\ trace' = <<>>
  /\ UNCHANGED <<env, clock, issued, db>>

\* Requests to the routes that never read the Authorization header carry none.
NewRequest ==
  \/ \E b \in LoginBodies : Start("POST", "/api/login", Undefined, b, FALSE)
  \/ \E p \in {"/", "/health", "/api/health-check", "/api/test-db"} :
       Start("GET", p, Undefined, NoBody, FALSE)
  \/ \E p \in {"/api/login", "/api/employees"} :
       Start("POST", p, Undefined, NoBody, TRUE)
  \/ \E h \in AuthorizationHeaders :
       \/ \E p \in GatedPaths \cup MissingPaths : Start("GET", p, h, NoBody, FALSE)
       \/ \E p \in GatedPaths : \E b \in PostBodies(p) : Start("POST", p, h, b, FALSE)
       \/ \E p \in {"/api/surveys", "/api/surveys/1/response"} :
            Start("POST", p, h, NoBody, FALSE)

\* time passes
Tick ==
  /\ clock < MaxClock
  /\ clock' = clock + 1
  /\ UNCHANGED <<env, issued, db, req, pc, reqUser, errors, res, queries, trace>>

\* The step of the middleware or handler called name: it is the one the chain
\* has reached; r is what it sends, whether it calls next(), and req.user.
\* A response once sent stays the response.
Run(name, r) ==
  /\ pc > 0
  /\ pc <= Len(Chain(req))
  /\ Chain(req)[pc] = name
  /\ res' = IF Sent(res) THEN res ELSE r.res
  /\ pc' = IF r.next /\ pc < Len(Chain(req)) THEN pc + 1 ELSE 0
  /\ reqUser' = r.user
  /\ trace' = Append(trace, name)
  /\ UNCHANGED <<env, clock, req>>

Final(response) == [res |-> response, next |-> FALSE, user |-> reqUser]

BodyValidators ==
  /\ Run("body", [res |-> NoRes, next |-> TRUE, user |-> reqUser])
  /\ errors' = bodyValidators(req.method, req.path, req.body)
  /\ UNCHANGED <<issued, db, queries>>

HandleValidationErrors ==
  /\ Run("handleValidationErrors", handleValidationErrors(errors, reqUser))
  /\ UNCHANGED <<issued, db, errors, queries>>

AuthenticateToken ==
  /\ Run("authenticateToken", authenticateToken(req.authorization, env, clock))
  /\ UNCHANGED <<issued, db, errors, queries>>

RequireRole ==
  /\ Run("requireRole", requireRole(AllowedRoles(req.path), reqUser))
  /\ UNCHANGED <<issued, db, errors, queries>>

Query(storeOk) == Append(queries, IF storeOk THEN "ok" ELSE "failed")

Login ==
  \E storeOk \in BOOLEAN :
    LET r == login(req.body, env, clock, storeOk)
    IN /\ Run("login", Final(r.res))
       /\ queries' = Query(storeOk)
       /\ issued' = IF r.token = NoJwt THEN issued ELSE issued \cup {r.token}
       /\ Cardinality(issued') <= MaxTokens
       /\ UNCHANGED <<db, errors>>

\* a GET handler of an entity route
List(name, table, failMessage) ==
  \E storeOk \in BOOLEAN :
    /\ Run(name, Final(selectAll(db[table], storeOk, failMessage)))
    /\ queries' = Query(storeOk)
    /\ UNCHANGED <<issued, db, errors>>

\* a POST handler of an entity route; parentOk is whether the row's foreign
\* key references an existing row
Create(name, table, parentOk, failMessage) ==
  \E up \in BOOLEAN :
    LET storeOk == up /\ parentOk
    IN /\ storeOk => TotalRows(db) - TotalRows(SeededDb) < MaxRows
       /\ Run(name, Final(insertRow(db[table], storeOk, failMessage)))
       /\ queries' = Query(storeOk)
       /\ db' = IF storeOk THEN [db EXCEPT ![table] = @ + 1] ELSE db
       /\ UNCHANGED <<issued, errors>>

\* the row id refers to one of the first count rows of the parent table
References(id, count) == IsInt(id) /\ Head(id) \notin {"-", "+"} /\ ParseInt(id) \in 1..count

GetCompanies == List("getCompanies", "companies", "Error fetching companies")
PostCompanies == Create("postCompanies", "companies", TRUE, "Error creating company")
GetEmployees == List("getEmployees", "employees", "Error fetching employees")
PostEmployees ==
  Create("postEmployees", "employees",
         "company_id" \in DOMAIN req.body /\ References(req.body.company_id, db.companies),
         "Error creating employee")
GetCategories == List("getCategories", "categories", "Error fetching categories")
PostCategories == Create("postCategories", "categories", TRUE, "Error creating category")
GetQuestions == List("getQuestions", "questions", "Error fetching questions")
PostQuestions ==
  Create("postQuestions", "questions",
         "category_id" \in DOMAIN req.body /\ References(req.body.category_id, db.categories),
         "Error creating question")

TestDb ==
  \E storeOk \in BOOLEAN :
    /\ Run("testDb", Final(testDb(clock, storeOk)))
    /\ queries' = Query(storeOk)
    /\ UNCHANGED <<issued, db, errors>>

Root ==
  /\ Run("root", Final(Json(200, [message |-> "Survey Management API is running!",
                                  status |-> "healthy", timestamp |-> clock,
                                  version |-> "1.0.0"])))
  /\ UNCHANGED <<issued, db, errors, queries>>

Health ==
  /\ Run("health", Final(Json(200, [status |-> "OK", database |-> "connected",
                                    timestamp |-> clock])))
  /\ UNCHANGED <<issued, db, errors, queries>>

HealthCheck ==
  /\ Run("healthCheck", Final(Json(200, [environment |-> env.NODE_ENV,
                                         hasDatabase |-> TRUE,
                                         hasJwtSecret |-> env.JWT_SECRET # Unset,
                                         timestamp |-> clock])))
  /\ UNCHANGED <<issued, db, errors, queries>>

ErrorMiddleware ==
  /\ Run("errorMiddleware", Final(errorMiddleware(env, ParseErrorDetail)))
  /\ UNCHANGED <<issued, db, errors, queries>>

NotFound ==
  /\ Run("notFound", Final(notFound))
  /\ UNCHANGED <<issued, db, errors, queries>>

\* the response has gone out and the request's objects are dropped: the
\* server is ready for the next request
Finish ==
  /\ pc = 0
  /\ req # NoReq
  /\ req' = NoReq
  /\ reqUser' = NoUser
  /\ errors' = {}
  /\ res' = NoRes
  /\ queries' = <<>>
  /\ trace' = <<>>
  /\ UNCHANGED <<env, clock, issued, db, pc>>

Next ==
  \/ NewRequest
  \/ Finish
  \/ Tick
  \/ BodyValidators
  \/ HandleValidationErrors
  \/ AuthenticateToken
  \/ RequireRole
  \/ Login
  \/ GetCompanies
  \/ PostCompanies
  \/ GetEmployees
  \/ PostEmployees
  \/ GetCategories
  \/ PostCategories
  \/ GetQuestions
  \/ PostQuestions
  \/ TestDb
  \/ Root
  \/ Health
  \/ HealthCheck
  \/ ErrorMiddleware
  \/ NotFound

Spec == Init /\ [][Next]_vars


\* ------------------------------------------------------- reading a request
Ran(name) == \E i \in 1..Len(trace) : trace[i] = name
Ended == pc = 0 /\ trace # <<>>
IsLogin == req.method = "POST" /\ req.path = "/api/login" /\ ~req.malformed
IsGated == req.path \in GatedPaths /\ req.method \in {"GET", "POST"} /\ ~req.malformed
IsGatedPost == IsGated /\ req.method = "POST"

\* the token the request's Authorization header carries (NoJwt if none)
Presented ==
  LET tk == BearerToken(req.authorization)
  IN IF Len(tk) = 1 /\ tk[1].ch = "jwt" THEN tk[1].jwt ELSE NoJwt

IsPrefix(s, t) == Len(s) <= Len(t) /\ \A i \in 1..Len(s) : s[i] = t[i]

InvalidCredentials == Json(401, [message |-> "Invalid credentials"])
AccessTokenRequired == Json(401, [message |-> "Access token required"])
InvalidToken == Json(403, [message |-> "Invalid or expired token"])
Forbidden == Json(403, [message |-> "Insufficient permissions"])

\* the step in which the middleware or handler called name runs
Steps(name) ==
  /\ pc > 0
  /\ pc <= Len(Chain(req))
  /\ Chain(req)[pc] = name
  /\ trace' = Append(trace, name)

\* ------------------------------------------------------------------- claims

C2_MatchingLoginSucceeds ==
  \A u \in UsersTable :
    (/\ IsLogin /\ Ended /\ queries = <<"ok">>
     /\ req.body.username = u.username
     /\ bcryptCompare(req.body.password, u.password))
    => /\ res.status = 200
       /\ res.body.token.payload.id = u.id
       /\ res.body.token.payload.username = u.username
       /\ res.body.token.payload.role = u.role
       /\ res.body.user = [id |-> u.id, username |-> u.username, role |-> u.role]

\* C3: when authenticateToken runs on a request carrying a token login issued:
\* before the token's expiry it sets req.user to the token's payload and
\* forwards without responding; after the expiry it answers 403 'Invalid or
\* expired token', leaves req.user unset and ends the request. A token that
\* verification rejects as expired is rejected as expired after every step.
C3_TokenLifetime ==
  [][/\ (Steps("authenticateToken") /\ Presented \in issued)
        => /\ clock < Presented.payload.exp
              => (reqUser' = Presented.payload /\ pc' = pc + 1 /\ res' = NoRes)
           /\ clock > Presented.payload.exp
              => (res' = InvalidToken /\ pc' = 0 /\ reqUser' = NoUser)
     /\ \A t \in issued :
          jwtVerify(<<JwtAtom(t)>>, env.JWT_SECRET, clock).err = "jwt expired"
          => jwtVerify(<<JwtAtom(t)>>, env'.JWT_SECRET, clock').err = "jwt expired"]_vars

\* C3 witness: a token login issued was presented after its expiry and the
\* request ended with InvalidToken.
C3_Witness ==
  /\ IsGated /\ Ended
  /\ Presented \in issued
  /\ clock > Presented.payload.exp
  /\ res = InvalidToken
  /\ trace = <<"authenticateToken">>

\* C4: a request to a gated route whose Authorization header is absent or has
\* no (or an empty) second space-separated part is answered by
\* authenticateToken with 401 'Access token required'; req.user stays unset and
\* nothing but authenticateToken runs for it.
C4_MissingToken ==
  (IsGated /\ BearerToken(req.authorization) = <<>>)
  => /\ reqUser = NoUser
     /\ queries = <<>>
     /\ \/ trace = <<>> /\ pc = 1 /\ res = NoRes
        \/ trace = <<"authenticateToken">> /\ pc = 0 /\ res = AccessTokenRequired

\* C4 witness: a gated request whose header is the one word 'Bearer' ended
\* with the 401.
C4_Witness ==
  /\ IsGated /\ Ended
  /\ req.authorization = <<Atom("Bearer")>>
  /\ res = AccessTokenRequired

\* C5: once requireRole has run on a gated route, the request went on exactly
\* when the role of req.user is in the route's allow-list (admin for companies
\* and employees, creator for categories and questions); otherwise it ended
\* with 403 'Insufficient permissions'.
C5_RoleGate ==
  (IsGated /\ Ran("requireRole"))
  => LET allowed == IF req.path \in {"/api/companies", "/api/employees"}
                    THEN {"admin"} ELSE {"creator"}
     IN /\ reqUser.role \in Roles
        /\ reqUser.role \in allowed
           => /\ res # Forbidden
              /\ (trace = <<"authenticateToken", "requireRole">> => pc = 3 /\ res = NoRes)
        /\ reqUser.role \notin allowed
           => (res = Forbidden /\ pc = 0
               /\ trace = <<"authenticateToken", "requireRole">>)

\* C5 witness: a creator's token on an admin-only route was refused.
C5_Witness ==
  /\ IsGated /\ Ended
  /\ req.path = "/api/companies"
  /\ reqUser.role = "creator"
  /\ res = Forbidden


\* C6: on login and on every gated route, a request that a stage before the
\* handler refuses (validation, authenticateToken, requireRole) has ended with
\* that stage's error and made no pool.query call; a request that has made
\* one has passed every stage of its chain before the handler.
C6_NoQueryAfterStageFailure ==
  (IsLogin \/ IsGated)
  => /\ (Ran("handleValidationErrors") /\ errors # {})
        => (res.status = 400 /\ res.body.message = "Validation failed"
            /\ pc = 0 /\ queries = <<>>)
     /\ (Ran("authenticateToken") /\ reqUser = NoUser)
        => (res \in {AccessTokenRequired, InvalidToken} /\ pc = 0 /\ queries = <<>>)
     /\ (Ran("requireRole") /\ reqUser.role \notin AllowedRoles(req.path))
        => (res = Forbidden /\ pc = 0 /\ queries = <<>>)
     /\ queries # <<>>
        => /\ trace = Chain(req)
           /\ bodyValidators(req.method, req.path, req.body) = {}
           /\ IsGated => reqUser.role \in AllowedRoles(req.path)

\* C6 witness: POST /api/employees from an admin with an invalid body ended
\* in the validation error with no query made.
C6_Witness ==
  /\ IsGatedPost /\ Ended
  /\ req.path = "/api/employees"
  /\ reqUser.role = "admin"
  /\ errors # {}
  /\ res.status = 400
  /\ queries = <<>>

\* C7: whenever a pool.query call of a request fails the request is answered
\* with status 500, and the store's error detail is in the response body only
\* in development mode.
C7_StoreErrorGeneric ==
  (\E i \in 1..Len(queries) : queries[i] = "failed")
  => /\ Ended => res.status = 500
     /\ (Sent(res) /\ "error" \in DOMAIN res.body /\ res.body.error = StoreErrorDetail)
        => env.NODE_ENV = "development"

\* the stored hashes, and the test that a JSON object carries none of them
PasswordHashes == {u.password : u \in UsersTable}
StringFields ==
  {"message", "error", "username", "role", "password", "status", "database",
   "environment", "version"}
NoHash(rec) ==
  /\ "password" \notin DOMAIN rec
  /\ \A f \in DOMAIN rec \cap StringFields : rec[f] \notin PasswordHashes

\* C8: no response body, no user object in a response, no token payload and no
\* req.user carries a password field or the stored password hash of any user.
C8_NoPasswordHashSent ==
  /\ NoHash(res.body)
  /\ "user" \in DOMAIN res.body => NoHash(res.body.user)
  /\ "token" \in DOMAIN res.body => NoHash(res.body.token.payload)
  /\ NoHash(reqUser)
  /\ \A t \in issued : NoHash(t.payload)

\* C8 witness: a login read the user's row, hash included, and answered 200
\* with a token and a user object.
C8_Witness ==
  /\ IsLogin /\ Ended
  /\ res.status = 200
  /\ res.body.token \in issued
  /\ \E u \in SelectUsers(req.body.username) : u.password \in PasswordHashes

\* the routes the inbound HTTP interface lists
ListedRoute ==
  \/ req.method = "POST" /\ req.path = "/api/login"
  \/ req.method \in {"GET", "POST"} /\ req.path \in GatedPaths \cup {"/api/surveys"}
  \/ req.method = "GET" /\ req.path \in {"/api/surveys/1", "/api/users"}
  \/ req.method = "POST" /\ req.path = "/api/surveys/1/response"

\* C9: a request to a route of the inbound HTTP interface that carries a token
\* login issued is never answered by the 404 handler.
C9_ListedRoutesServed ==
  (ListedRoute /\ ~req.malformed /\ Presented \in issued)
  => (~Ran("notFound") /\ res.status # 404)

\* C10 as stated: on every entity endpoint a request whose body fails
\* validation is answered 400 'Validation failed' whether or not it carries a
\* token.
C10_ValidationFirst ==
  (IsGatedPost /\ Ended /\ bodyValidators(req.method, req.path, req.body) # {})
  => (res.status = 400 /\ res.body.message = "Validation failed")

\* C10 amended: on every entity endpoint with a body the stages run in the
\* order authenticateToken, requireRole, validation; a request whose body fails
\* validation is answered 400 'Validation failed' only when its token verified
\* and its role is allowed, and otherwise with the 401 or 403 of the gate or
\* the role check.
C10_GateBeforeValidation ==
  IsGatedPost
  => /\ IsPrefix(trace, <<"authenticateToken", "requireRole", "body",
                         "handleValidationErrors", EntityHandler(req.method, req.path)>>)
     /\ (Ended /\ bodyValidators(req.method, req.path, req.body) # {})
        => IF BearerToken(req.authorization) = <<>> THEN res = AccessTokenRequired
           ELSE IF reqUser = NoUser THEN res = InvalidToken
           ELSE IF reqUser.role \notin AllowedRoles(req.path) THEN res = Forbidden
           ELSE res = Json(400, [message |-> "Validation failed",
                                 errors |-> bodyValidators(req.method, req.path, req.body)])

\* C10 witness: a POST with an invalid body and no token ended with the 401
\* of authenticateToken, validation never having run.
C10_Witness ==
  /\ IsGatedPost /\ Ended
  /\ bodyValidators(req.method, req.path, req.body) # {}
  /\ req.authorization = Undefined
  /\ res = AccessTokenRequired
  /\ ~Ran("body")


\* C11: a request other than a login that has made a pool.query call has
\* passed authenticateToken and requireRole: its req.user was set by a
\* verified token whose role the route allows.
C11_QueriesBehindGate ==
  (queries # <<>> /\ ~IsLogin)
  => /\ Ran("authenticateToken")
     /\ Ran("requireRole")
     /\ reqUser # NoUser

\* C12: the server never serves with no signing key: there is no state in
\* which JWT_SECRET is unset and a login with a stored user's username and
\* password, its lookup having returned, has ended in a 500.
C12_NoKeylessServing ==
  env.JWT_SECRET = Unset
  => ~(/\ IsLogin /\ Ended /\ queries = <<"ok">>
       /\ \E u \in SelectUsers(req.body.username) :
            bcryptCompare(req.body.password, u.password)
       /\ res.status = 500)

====
